---- MODULE Spec2Model ----
(* Model of xapktool.py: main -> XAPK.__init__/initialize -> make_manifest   *)
(* -> verification -> save.  File names and package names are sequences of   *)
(* their dot-separated segments ("config.a.apk" is <<"config","a","apk">>),  *)
(* so glob matching, Path.stem and str.split(".") are computed on segments.  *)
EXTENDS Integers, Sequences, FiniteSets, TLC

VARIABLES args, dir, pkg, pc, apk_src, obb_files, split_config_files, apk,
          manifest, icon, i, verified, err, called, raised, zip_dir, staged,
          xapk_written, xapk, saved, exitCode

vars == <<args, dir, pkg, pc, apk_src, obb_files, split_config_files, apk,
          manifest, icon, i, verified, err, called, raised, zip_dir, staged,
          xapk_written, xapk, saved, exitCode>>

\* ---------------------------------------------------------------- bounds
MaxFiles == 3
MaxSize == 2
MaxArgs == 2

\* ---------------------------------------------------------------- inputs
BaseName == <<"base", "apk">>

FileNames ==
  { BaseName,
    <<"main", "1", "com", "a", "obb">>,
    <<"patch", "1", "com", "a", "obb">>,
    <<"main", "1", "com", "b", "obb">>,
    <<"config", "a", "apk">>,
    <<"asset", "b", "apk">>,
    <<"config", "apk">>,
    <<"data", "obb">> }

PackageNames == { <<"com", "a">>, <<"com", "b">>, <<"config", "a">> }

\* "d" is an existing directory, "nodir" is a path that is not a directory
Folders == {"d", "nodir"}

Directories ==
  UNION { [S -> 1..MaxSize] : S \in { T \in SUBSET FileNames : Cardinality(T) <= MaxFiles } }

ArgLists == UNION { [1..n -> Folders] : n \in 0..MaxArgs }

\* ---------------------------------------------------------------- None values
NoPath == << >>
NoManifest == [k \in {} |-> 0]
NoIcon == << >>
IconBytes == <<"#icon">>
ManifestJson == <<"#manifest.json">>
NoErr == [stage |-> "", cause |-> "", names |-> {}]
NoFiles == [p \in {} |-> << >>]

\* ---------------------------------------------------------------- pure helpers
is_dir(folder) == folder = "d"

\* Path.glob patterns, fnmatch on the file name
MatchBase(name) == name = <<"base", "apk">>

MatchObb(name) == Len(name) >= 2 /\ name[Len(name)] = "obb"

MatchConfig(name) == Len(name) >= 3 /\ name[1] = "config" /\ name[Len(name)] = "apk"

MatchAsset(name) == Len(name) >= 3 /\ name[1] = "asset" /\ name[Len(name)] = "apk"

\* the enumeration orders a glob may yield for a set of matching names
Orders(S) ==
  { s \in [1..Cardinality(S) -> S] : \A a, b \in 1..Cardinality(S) : s[a] = s[b] => a = b }

\* Path.stem: the name without its last suffix
stem(name) == IF Len(name) >= 2 THEN SubSeq(name, 1, Len(name) - 1) ELSE name

\* ".".join(segments): the empty list joins to the empty string
Join(segs) == IF segs = << >> THEN <<"">> ELSE segs

\* ".".join(obb.stem.split(".")[2:])
obb_package_name(name) == Join(SubSeq(stem(name), 3, Len(stem(name))))

ObbTokenAt_First(files, k) == obb_package_name(files[1])

\* [obb.stem.split(".")[2:] for obb in self.obb_files][i]
ObbTokenAt(files, k) == obb_package_name(files[k])

NoSupplementary_DroppedNot(obbs, splits) == obbs = << >> /\ splits # << >>

\* not self.obb_files and not self.split_config_files
NoSupplementary(obbs, splits) == obbs = << >> /\ splits = << >>

\* destination paths inside the staging directory / archive
RootPath(name) == [dir |-> << >>, name |-> name]

ApkDest(p) == RootPath(p \o <<"apk">>)

ObbDest(p, name) == [dir |-> << <<"Android">>, <<"obb">>, p >>, name |-> name]

SplitDest(name) == RootPath(name)

IconDest == RootPath(<<"icon", "png">>)

ManifestDest == RootPath(<<"manifest", "json">>)

Put(files, path, content) == (path :> content) @@ files

\* ---------------------------------------------------------------- collaborator
\* what the package-inspection collaborator (androguard APK) answers for a
\* base package whose declared package name is p
Identity(p) ==
  [ package_name |-> p, name |-> "App", version_code |-> 1, version_name |-> "1.0",
    min_sdk_version |-> 21, target_sdk_version |-> 33, permissions |-> {"INTERNET"} ]

\* the queries make_manifest issues; each may raise
ManifestQueries ==
  { "get_package", "get_app_name", "get_androidversion_code", "get_androidversion_name",
    "get_min_sdk_version", "get_target_sdk_version", "get_permissions" }

\* the queries save issues before the staging directory exists (line 112)
SaveNameQueries == { "get_package", "get_androidversion_name" }

\* ---------------------------------------------------------------- make_manifest
RECURSIVE SumSizes(_, _)
SumSizes(files, d) ==
  IF files = << >> THEN 0 ELSE d[Head(files)] + SumSizes(Tail(files), d)

TotalSize_NoSplits(apk_size, obb_sizes, split_sizes) == apk_size + obb_sizes

\* total_size = apk_size, then += each obb_size, then += each split_confg_size
TotalSize(apk_size, obb_sizes, split_sizes) == apk_size + obb_sizes + split_sizes

ObbInfo(obbs, p) ==
  [ k \in 1..Len(obbs) |->
      [ file |-> ObbDest(p, obbs[k]),
        install_location |-> "EXTERNAL_STORAGE",
        install_path |-> ObbDest(p, obbs[k]) ] ]

SplitApksInfo(splits, p) ==
  << [file |-> ApkDest(p), id |-> <<"base">>] >>
    \o [ k \in 1..Len(splits) |-> [file |-> SplitDest(splits[k]), id |-> stem(splits[k])] ]

SplitConfigsInfo(splits) == [ k \in 1..Len(splits) |-> stem(splits[k]) ]

OptionalKeys_AlwaysPresent(split_configs_info, obb_info) ==
  ("split_configs" :> split_configs_info) @@ ("expansions" :> obb_info)

\* if len(split_configs_info) != 0: ...; if len(obb_info) != 0: ...
OptionalKeys(split_configs_info, obb_info) ==
  (IF Len(split_configs_info) # 0 THEN "split_configs" :> split_configs_info ELSE NoManifest)
    @@ (IF Len(obb_info) # 0 THEN "expansions" :> obb_info ELSE NoManifest)

make_manifest(src, obbs, splits, d, p) ==
  [ xapk_version |-> 2,
    package_name |-> Identity(p).package_name,
    name |-> Identity(p).name,
    version_code |-> Identity(p).version_code,
    version_name |-> Identity(p).version_name,
    min_sdk_version |-> Identity(p).min_sdk_version,
    target_sdk_version |-> Identity(p).target_sdk_version,
    permissions |-> Identity(p).permissions,
    total_size |-> TotalSize(d[src], SumSizes(obbs, d), SumSizes(splits, d)),
    split_apks |-> SplitApksInfo(splits, p) ]
    @@ OptionalKeys(SplitConfigsInfo(splits), ObbInfo(obbs, p))

\* ---------------------------------------------------------------- state machine
Init ==
  /\ args \in ArgLists
  /\ dir \in Directories
  /\ pkg \in PackageNames
  /\ pc = "main"
  /\ apk_src = NoPath
  /\ obb_files = << >>
  /\ split_config_files = << >>
  /\ apk = FALSE
  /\ manifest = NoManifest
  /\ icon = NoIcon
  /\ i = 0
  /\ verified = FALSE
  /\ err = NoErr
  /\ called = {}
  /\ raised = {}
  /\ zip_dir = FALSE
  /\ staged = NoFiles
  /\ xapk_written = FALSE
  /\ xapk = NoFiles
  /\ saved = FALSE
  /\ exitCode = -1

Error(stage, cause) == [stage |-> stage, cause |-> cause, names |-> {}]

\* main, lines 166-173: the argument count check; XAPK(folder) starts initialize
main_args ==
  /\ pc = "main"
  /\ IF Len(args) # 1
       THEN pc' = "exit" /\ exitCode' = 0
       ELSE pc' = "resolve" /\ UNCHANGED exitCode
  /\ UNCHANGED <<verified, args, dir, pkg, apk_src, obb_files, split_config_files, apk, manifest,
                 icon, i, err, called, raised, zip_dir, staged, xapk_written, xapk, saved>>

\* initialize, lines 23-37: directory check and the four globs
resolve ==
  /\ pc = "resolve"
  /\ IF ~is_dir(args[1])
       THEN /\ err' = Error("Initialization", "NotADirectory")
            /\ pc' = "raised"
            /\ UNCHANGED <<apk_src, obb_files, split_config_files>>
       ELSE IF \A x \in DOMAIN dir : ~MatchBase(x)
         THEN /\ err' = Error("Initialization", "MissingBasePackage")
              /\ pc' = "raised"
              /\ UNCHANGED <<apk_src, obb_files, split_config_files>>
         ELSE /\ apk_src' = CHOOSE x \in DOMAIN dir : MatchBase(x)
              /\ \E o \in Orders({x \in DOMAIN dir : MatchObb(x)}),
                    c \in Orders({x \in DOMAIN dir : MatchConfig(x)}),
                    a \in Orders({x \in DOMAIN dir : MatchAsset(x)}) :
                   /\ obb_files' = o
                   /\ split_config_files' = c \o a
              /\ IF NoSupplementary(obb_files', split_config_files')
                   THEN /\ err' = Error("Initialization", "NoSupplementaryFiles")
                        /\ pc' = "raised"
                   ELSE /\ pc' = "inspect"
                        /\ UNCHANGED err
  /\ UNCHANGED <<verified, args, dir, pkg, apk, manifest, icon, i, called, raised, zip_dir, staged,
                 xapk_written, xapk, saved, exitCode>>

\* initialize, line 39: APK(self.apk_src)
inspect ==
  /\ pc = "inspect"
  /\ called' = called \cup {"APK"}
  /\ \/ /\ apk' = TRUE
        /\ pc' = "make_manifest"
        /\ UNCHANGED <<err, raised>>
     \/ /\ raised' = raised \cup {<<"APK", "APK">>}
        /\ err' = Error("Initialization", "APK")
        /\ pc' = "raised"
        /\ UNCHANGED apk
  /\ UNCHANGED <<verified, args, dir, pkg, apk_src, obb_files, split_config_files, manifest, icon, i,
                 zip_dir, staged, xapk_written, xapk, saved, exitCode>>

\* initialize, line 40: self.manifest = self.make_manifest()
build_manifest ==
  /\ pc = "make_manifest"
  /\ called' = called \cup {"manifest"}
  /\ \/ /\ manifest' = make_manifest(apk_src, obb_files, split_config_files, dir, pkg)
        /\ pc' = "icon"
        /\ UNCHANGED <<err, raised>>
     \/ \E q \in ManifestQueries :
          /\ raised' = raised \cup {<<"manifest", q>>}
          /\ err' = Error("Manifest creation", q)
          /\ pc' = "raised"
          /\ UNCHANGED manifest
  /\ UNCHANGED <<verified, args, dir, pkg, apk_src, obb_files, split_config_files, apk, icon, i,
                 zip_dir, staged, xapk_written, xapk, saved, exitCode>>

OnIconFailure_Abort == "raised"

\* line 43: except Exception around the icon query; control continues at line 46
OnIconFailure == "verify"

\* initialize, lines 41-44: the icon query
get_icon ==
  /\ pc = "icon"
  /\ called' = called \cup {"icon"}
  /\ \/ /\ icon' = IconBytes
        /\ pc' = "verify"
        /\ UNCHANGED raised
     \/ /\ raised' = raised \cup {<<"icon", "get_app_icon">>}
        /\ pc' = OnIconFailure
        /\ UNCHANGED icon
  /\ UNCHANGED <<verified, args, dir, pkg, apk_src, obb_files, split_config_files, apk, manifest, i,
                 err, zip_dir, staged, xapk_written, xapk, saved, exitCode>>

\* initialize, lines 46-47: apk_package_name = self.apk.get_package()
verify_start ==
  /\ pc = "verify"
  /\ called' = called \cup {"verify"}
  /\ \/ /\ i' = 1
        /\ pc' = "verify_loop"
        /\ UNCHANGED <<err, raised>>
     \/ /\ raised' = raised \cup {<<"verify", "get_package">>}
        /\ err' = Error("Initialization", "get_package")
        /\ pc' = "raised"
        /\ UNCHANGED i
  /\ UNCHANGED <<verified, args, dir, pkg, apk_src, obb_files, split_config_files, apk, manifest, icon,
                 zip_dir, staged, xapk_written, xapk, saved, exitCode>>

\* initialize, lines 48-52: one iteration of the verification loop, or its end
verify_loop ==
  /\ pc = "verify_loop"
  /\ IF i > Len(obb_files)
       THEN pc' = "save" /\ verified' = TRUE /\ UNCHANGED <<i, err>>
       ELSE IF ObbTokenAt(obb_files, i) # Identity(pkg).package_name
         THEN /\ err' = Error("Initialization", "IdentityMismatch")
              /\ pc' = "raised"
              /\ UNCHANGED <<i, verified>>
         ELSE i' = i + 1 /\ UNCHANGED <<pc, err, verified>>
  /\ UNCHANGED <<args, dir, pkg, apk_src, obb_files, split_config_files, apk, manifest, icon,
                 called, raised, zip_dir, staged, xapk_written, xapk, saved, exitCode>>

OnStagedFailure_NoFinally == "raised"

\* lines 116/159: an exception inside the inner try runs the finally block first
OnStagedFailure == "cleanup"

\* save, lines 109-115: source check, archive name, tempfile.mkdtemp()
save_start ==
  /\ pc = "save"
  /\ called' = called \cup {"save"}
  /\ IF apk_src = NoPath
       THEN /\ err' = Error("Saving", "NotInitialized")
            /\ pc' = "raised"
            /\ UNCHANGED <<raised, zip_dir>>
       ELSE \/ /\ zip_dir' = TRUE
               /\ pc' = "copy_apk"
               /\ UNCHANGED <<err, raised>>
            \/ \E q \in SaveNameQueries :
                 /\ raised' = raised \cup {<<"save", q>>}
                 /\ err' = Error("Saving", q)
                 /\ pc' = "raised"
                 /\ UNCHANGED zip_dir
            \/ /\ err' = Error("Saving", "mkdtemp")
               /\ pc' = "raised"
               /\ UNCHANGED <<raised, zip_dir>>
  /\ UNCHANGED <<verified, args, dir, pkg, apk_src, obb_files, split_config_files, apk, manifest, icon,
                 i, staged, xapk_written, xapk, saved, exitCode>>

\* a step inside the inner try fails: collaborator query or file-system error
StagedFailure(site, cause, isQuery) ==
  /\ err' = Error("Saving", cause)
  /\ raised' = IF isQuery THEN raised \cup {<<site, cause>>} ELSE raised
  /\ pc' = OnStagedFailure

\* save, lines 117-122: copy the base package to <package_name>.apk
copy_apk ==
  /\ pc = "copy_apk"
  /\ \/ /\ staged' = Put(staged, ApkDest(Identity(pkg).package_name), apk_src)
        /\ i' = 1
        /\ pc' = "copy_obb"
        /\ UNCHANGED <<err, raised>>
     \/ /\ StagedFailure("save", "get_package", TRUE)
        /\ UNCHANGED <<staged, i>>
     \/ /\ StagedFailure("save", "copy2", FALSE)
        /\ UNCHANGED <<staged, i>>
  /\ UNCHANGED <<verified, args, dir, pkg, apk_src, obb_files, split_config_files, apk, manifest, icon,
                 called, zip_dir, xapk_written, xapk, saved, exitCode>>

\* save, lines 124-131: copy one expansion file, or leave the loop
copy_obb ==
  /\ pc = "copy_obb"
  /\ IF i > Len(obb_files)
       THEN /\ i' = 1
            /\ pc' = "copy_split"
            /\ UNCHANGED <<staged, err, raised>>
       ELSE \/ /\ staged' = Put(staged, ObbDest(Identity(pkg).package_name, obb_files[i]),
                                obb_files[i])
               /\ i' = i + 1
               /\ UNCHANGED <<pc, err, raised>>
            \/ /\ StagedFailure("save", "get_package", TRUE)
               /\ UNCHANGED <<staged, i>>
            \/ /\ StagedFailure("save", "copy2", FALSE)
               /\ UNCHANGED <<staged, i>>
  /\ UNCHANGED <<verified, args, dir, pkg, apk_src, obb_files, split_config_files, apk, manifest, icon,
                 called, zip_dir, xapk_written, xapk, saved, exitCode>>

\* save, lines 133-136: copy one split-config file into zip_dir, or leave the loop
copy_split ==
  /\ pc = "copy_split"
  /\ IF i > Len(split_config_files)
       THEN /\ pc' = "write_icon"
            /\ UNCHANGED <<staged, i, err, raised>>
       ELSE \/ /\ staged' = Put(staged, SplitDest(split_config_files[i]),
                                split_config_files[i])
               /\ i' = i + 1
               /\ UNCHANGED <<pc, err, raised>>
            \/ /\ StagedFailure("save", "copy2", FALSE)
               /\ UNCHANGED <<staged, i>>
  /\ UNCHANGED <<verified, args, dir, pkg, apk_src, obb_files, split_config_files, apk, manifest, icon,
                 called, zip_dir, xapk_written, xapk, saved, exitCode>>

\* save, lines 138-144: write icon.png when an icon was retrieved
write_icon ==
  /\ pc = "write_icon"
  /\ IF icon = NoIcon
       THEN /\ pc' = "write_manifest"
            /\ UNCHANGED <<staged, err, raised>>
       ELSE \/ /\ staged' = Put(staged, IconDest, icon)
               /\ pc' = "write_manifest"
               /\ UNCHANGED <<err, raised>>
            \/ /\ StagedFailure("save", "write", FALSE)
               /\ UNCHANGED staged
  /\ UNCHANGED <<verified, args, dir, pkg, apk_src, obb_files, split_config_files, apk, manifest, icon,
                 i, called, zip_dir, xapk_written, xapk, saved, exitCode>>

\* save, lines 146-150: json.dump(self.manifest) to manifest.json
write_manifest ==
  /\ pc = "write_manifest"
  /\ \/ /\ staged' = Put(staged, ManifestDest, ManifestJson)
        /\ pc' = "zip_open"
        /\ UNCHANGED <<err, raised>>
     \/ /\ StagedFailure("save", "write", FALSE)
        /\ UNCHANGED staged
  /\ UNCHANGED <<verified, args, dir, pkg, apk_src, obb_files, split_config_files, apk, manifest, icon,
                 i, called, zip_dir, xapk_written, xapk, saved, exitCode>>

\* save, line 153: zipfile.ZipFile(zip_path, 'w') creates or truncates the output
zip_open ==
  /\ pc = "zip_open"
  /\ \/ /\ xapk_written' = TRUE
        /\ xapk' = NoFiles
        /\ pc' = "zip_write"
        /\ UNCHANGED <<err, raised>>
     \/ /\ StagedFailure("save", "open", FALSE)
        /\ UNCHANGED <<xapk_written, xapk>>
  /\ UNCHANGED <<verified, args, dir, pkg, apk_src, obb_files, split_config_files, apk, manifest, icon,
                 i, called, zip_dir, staged, saved, exitCode>>

\* save, lines 154-158: os.walk(zip_dir) in its own order, zfd.write per file;
\* the with block closes the archive both on completion and on an exception
zip_write ==
  /\ pc = "zip_write"
  /\ IF DOMAIN staged \subseteq DOMAIN xapk
       THEN /\ saved' = TRUE
            /\ pc' = "cleanup"
            /\ UNCHANGED <<xapk, err, raised>>
       ELSE \/ \E f \in DOMAIN staged \ DOMAIN xapk :
                 /\ xapk' = Put(xapk, f, staged[f])
                 /\ UNCHANGED <<pc, err, raised, saved>>
            \/ /\ StagedFailure("save", "zip", FALSE)
               /\ UNCHANGED <<xapk, saved>>
  /\ UNCHANGED <<verified, args, dir, pkg, apk_src, obb_files, split_config_files, apk, manifest, icon,
                 i, called, zip_dir, staged, xapk_written, exitCode>>

\* save, lines 159-164 and main after xapk.save(): shutil.rmtree(zip_dir), then
\* either the pending exception is re-raised or save and main return
cleanup ==
  /\ pc = "cleanup"
  /\ zip_dir' = FALSE
  /\ staged' = NoFiles
  /\ IF err # NoErr
       THEN pc' = "raised" /\ UNCHANGED exitCode
       ELSE pc' = "exit" /\ exitCode' = 0
  /\ UNCHANGED <<verified, args, dir, pkg, apk_src, obb_files, split_config_files, apk, manifest, icon,
                 i, err, called, raised, xapk_written, xapk, saved>>

\* lines 54-55, 163-164 and 175-186: the exception reaches main, which prints it
\* and calls exit(1)
main_except ==
  /\ pc = "raised"
  /\ pc' = "exit"
  /\ exitCode' = 1
  /\ UNCHANGED <<verified, args, dir, pkg, apk_src, obb_files, split_config_files, apk, manifest, icon,
                 i, err, called, raised, zip_dir, staged, xapk_written, xapk, saved>>

Next ==
  \/ main_args
  \/ resolve
  \/ inspect
  \/ build_manifest
  \/ get_icon
  \/ verify_start
  \/ verify_loop
  \/ save_start
  \/ copy_apk
  \/ copy_obb
  \/ copy_split
  \/ write_icon
  \/ write_manifest
  \/ zip_open
  \/ zip_write
  \/ cleanup
  \/ main_except

Spec == Init /\ [][Next]_vars

\* ---------------------------------------------------------------- properties
Range(s) == { s[k] : k \in 1..Len(s) }

RECURSIVE SetSum(_, _)
SetSum(S, d) ==
  IF S = {} THEN 0 ELSE LET x == CHOOSE y \in S : TRUE IN d[x] + SetSum(S \ {x}, d)

Expansions(d) == { f \in DOMAIN d : MatchObb(f) }

SplitConfigs(d) == { f \in DOMAIN d : MatchConfig(f) \/ MatchAsset(f) }

Built == manifest # NoManifest

\* C1: whenever a manifest has been built, its total_size is the size of base.apk
\* plus the sizes of all *.obb files plus the sizes of all config.*.apk and
\* asset.*.apk files of the directory, each file counted once.
C1_TotalSize ==
  Built =>
    manifest.total_size
      = dir[BaseName] + SetSum(Expansions(dir), dir) + SetSum(SplitConfigs(dir), dir)

C1_Witness ==
  pc = "exit" /\ saved /\ Expansions(dir) # {} /\ SplitConfigs(dir) # {}

\* C2: in every built manifest, split_configs is a key iff there are split-config
\* files and expansions is a key iff there are expansion files, and a key that
\* is present never holds an empty list.
C2_OptionalKeys ==
  Built =>
    /\ ("split_configs" \in DOMAIN manifest) <=> (split_config_files # << >>)
    /\ ("expansions" \in DOMAIN manifest) <=> (obb_files # << >>)
    /\ "split_configs" \in DOMAIN manifest => Len(manifest.split_configs) > 0
    /\ "expansions" \in DOMAIN manifest => Len(manifest.expansions) > 0

C2_Witness ==
  Built /\ "split_configs" \notin DOMAIN manifest /\ "expansions" \in DOMAIN manifest

Offending == { f \in Range(obb_files) : obb_package_name(f) # pkg }

\* C3: when verification ran over a directory with an expansion file whose
\* token differs from the package name, the run ends with an IdentityMismatch
\* error that names an offending file, and no manifest was written out.
C3_MismatchNamesFile ==
  (pc = "exit" /\ "verify" \in called /\ raised = {} /\ Offending # {}) =>
    /\ err.cause = "IdentityMismatch"
    /\ err.names \cap Offending # {}
    /\ ~xapk_written

OnlyBase ==
  /\ Len(args) = 1
  /\ is_dir(args[1])
  /\ BaseName \in DOMAIN dir
  /\ Expansions(dir) = {}
  /\ SplitConfigs(dir) = {}

\* C4: for an existing directory holding base.apk and no *.obb, config.*.apk or
\* asset.*.apk file, the collaborator is never invoked and the run ends with
\* the NoSupplementaryFiles error.
C4_NoSupplementaryBeforeInspection ==
  OnlyBase =>
    /\ called = {}
    /\ ~apk
    /\ pc = "exit" => (err.cause = "NoSupplementaryFiles" /\ exitCode = 1)

C4_Witness == OnlyBase /\ pc = "exit" /\ DOMAIN dir # {BaseName}

CompleteArchive ==
  /\ ApkDest(pkg) \in DOMAIN xapk
  /\ \A f \in Range(obb_files) : ObbDest(pkg, f) \in DOMAIN xapk
  /\ \A f \in Range(split_config_files) : SplitDest(f) \in DOMAIN xapk
  /\ ManifestDest \in DOMAIN xapk

\* C6: when the run has ended, the output archive either was not written by
\* this run or contains the base package, every expansion file, every
\* split-config file and manifest.json.
C6_NoPartialArchive == pc = "exit" => (~xapk_written \/ CompleteArchive)

\* C7: the run exits with code 0 iff the bundle was built and saved.
C7_ExitZeroIffSaved == pc = "exit" => (exitCode = 0 <=> saved)

\* C8: when save has returned or raised, the staging directory is gone.
C8_StagingRemoved == pc \in {"raised", "exit"} => (~zip_dir /\ staged = NoFiles)

C8_Witness == pc = "raised" /\ err.cause \in {"copy2", "write", "zip", "open"} /\ ~zip_dir

IconFailed == <<"icon", "get_app_icon">> \in raised

\* C9: a raising icon query leaves the icon absent and the manifest as built,
\* the run goes on to verification and no icon.png is staged or archived; any
\* other raising collaborator query ends the run with exit code 1 and no
\* archive written.
C9_OnlyIconFailureIsNonFatal ==
  /\ IconFailed =>
       /\ icon = NoIcon
       /\ manifest = make_manifest(apk_src, obb_files, split_config_files, dir, pkg)
       /\ pc \in {"raised", "exit"} => "verify" \in called
       /\ IconDest \notin DOMAIN staged
       /\ IconDest \notin DOMAIN xapk
  /\ raised \ {<<"icon", "get_app_icon">>} # {} =>
       /\ pc \in {"cleanup", "raised", "exit"}
       /\ ~xapk_written
       /\ ~saved
       /\ pc = "exit" => exitCode = 1

C9_Witness == IconFailed /\ pc = "exit" /\ saved /\ ManifestDest \in DOMAIN xapk

\* C10: in a saved bundle every input file sits at its own destination path as
\* a copy of itself, and the file values of split_apks are pairwise distinct.
C10_DestinationsDistinct ==
  (pc = "exit" /\ saved) =>
    /\ xapk[ApkDest(pkg)] = apk_src
    /\ \A f \in Range(obb_files) : xapk[ObbDest(pkg, f)] = f
    /\ \A f \in Range(split_config_files) : xapk[SplitDest(f)] = f
    /\ \A a, b \in 1..Len(manifest.split_apks) :
         manifest.split_apks[a].file = manifest.split_apks[b].file => a = b

====
